---- MODULE Spec2Model ----
(***************************************************************************)
(* Model of the CryptoNow payment server (Rust, actix-web):                *)
(*   src/src/config.rs      Config, the token registry                     *)
(*   src/src/storage.rs     StorageService, the RwLock'ed HashMap           *)
(*   src/src/payment.rs     PaymentService: create, get, verify, cleanup    *)
(*   src/src/multichain.rs  MultichainService: on-chain verification        *)
(*   src/src/main.rs        HTTP handlers, create_payment_transaction       *)
(*                                                                         *)
(* Every request is a task; a task's steps are the pieces of its handler   *)
(* between two points where other tasks can touch the shared state: each   *)
(* acquisition of the store lock, each read of the wall clock and each     *)
(* network call is a step of its own.                                      *)
(*                                                                         *)
(* Amounts are f64 in the code.  The model keeps them exact, as a pair     *)
(* [u, n] meaning u + n / 10^9 display units with 0 <= n < 10^9, so that    *)
(* both the tolerance (10^-6) and the ceiling (10^6) are representable in  *)
(* TLC's 32-bit integers.  Binary rounding of f64 is not modelled.         *)
(***************************************************************************)
EXTENDS Integers, Sequences, FiniteSets, TLC

VARIABLES
    cfg,      \* Config.solana: fee_wallet, fee_amount, fee_token (immutable after load)
    now,      \* Utc::now(), in minutes
    store,    \* StorageService.payments: id -> Payment, or NoPayment when absent
    nextId,   \* number of ids generated so far (Uuid::new_v4 never repeats)
    chain,    \* the ledger as RpcClient::get_transaction sees it: signature -> transaction
    ver,      \* one record per verify request in flight (PaymentService::verify_payment)
    comp,     \* the build-transaction request in flight (transaction_post)
    lock,     \* StorageService.payments' RwLock: the writer and the readers holding it
    call,     \* one record per direct call of a StorageService method in flight
    created   \* what the last create request returned (create_payment)

vars == <<cfg, now, store, nextId, chain, ver, comp, lock, call, created>>

-----------------------------------------------------------------------------
(* Bounds of the model *)

MaxPayments == 1      \* payments created in one behaviour
MaxTicks == 2         \* clock ticks in one behaviour

-----------------------------------------------------------------------------
(* Amounts *)

NanoPerUnit == 1000000000

Amt(u, n) == [u |-> u, n |-> n]

Norm(u, n) == [u |-> u + (n \div NanoPerUnit), n |-> n % NanoPerUnit]

AmtAdd(a, b) == Norm(a.u + b.u, a.n + b.n)

AmtSub(a, b) == Norm(a.u - b.u, a.n - b.n)

AmtAbs(a) == IF a.u < 0 THEN Norm(-a.u, -a.n) ELSE a

AmtLT(a, b) == a.u < b.u \/ (a.u = b.u /\ a.n < b.n)

Zero == Amt(0, 0)

Ok(v) == [kind |-> "ok", value |-> v]
Err(d) == [kind |-> "err", details |-> d]

-----------------------------------------------------------------------------
(* Config and token registry (config.rs) *)

MintUSDC == "EPjFWdd5AufqSSqeM2qN1xzybapC8G4wEGGkZwyTDt1v"
MintUSDT == "Es9vMFrzaCERmJfrF4H2FYD4KCoNkY11McCe8BenwNYB"
NoMint == "None"

supported_tokens ==
    << [symbol |-> "SOL",  mint |-> NoMint,   decimals |-> 9],
       [symbol |-> "USDC", mint |-> MintUSDC, decimals |-> 6],
       [symbol |-> "USDT", mint |-> MintUSDT, decimals |-> 6] >>

NoToken == [symbol |-> "None", mint |-> NoMint, decimals |-> 0]

\* supported_tokens.iter().find(|t| t.symbol == symbol)
get_token_config(symbol) ==
    LET hits == {i \in 1..Len(supported_tokens) : supported_tokens[i].symbol = symbol}
    IN  IF hits = {} THEN NoToken
        ELSE supported_tokens[CHOOSE i \in hits : \A j \in hits : i <= j]

is_token_supported(symbol) == get_token_config(symbol) # NoToken

\* Addresses: the strings Pubkey::from_str accepts, and one it rejects.
FeeWallet == "feeWallet"
Accounts == {"rcpA", FeeWallet, "payer"}
BadAddress == "not-base58"

validate_address(address) == address \in Accounts

\* FEE_TOKEN is read from the environment and never checked against the registry;
\* FEE_AMOUNT defaults to 1.0.
FeeTokenChoices == {"USDC", "SOL", "BONK"}
FeeAmount == Amt(1, 0)

load(feeToken) ==
    [fee_wallet |-> FeeWallet, fee_amount |-> FeeAmount, fee_token |-> feeToken]

\* Config::validate
validate(c) ==
    /\ c.fee_wallet # "YOUR_SOLANA_WALLET_HERE"
    /\ AmtLT(Zero, c.fee_amount)
    /\ Len(supported_tokens) > 0

-----------------------------------------------------------------------------
(* Payments (payment.rs) and the store (storage.rs) *)

PaymentIds == 1..MaxPayments
NoPayment == [id |-> 0]
NoSignature == "None"
NoTime == -1

ValidityMinutes == 30          \* Duration::minutes(30)
TickStep == ValidityMinutes
CeilingUnits == 1000000        \* request.amount > 1_000_000.0

\* Create requests: recipient, amount and token as the client sends them.
RequestRecipients == {"rcpA", BadAddress}
RequestTokens == {"SOL", "USDC", "DOGE"}
RequestAmounts ==
    {Amt(0, 500000000), Amt(1, 500000500), Amt(0, 0), Amt(-1, 0), Amt(CeilingUnits, 1000)}
Requests == [recipient : RequestRecipients, amount : RequestAmounts, token : RequestTokens]

\* Mutant of validate_payment_request: the ceiling is not checked.
validate_payment_request_without_ceiling(request) ==
    /\ validate_address(request.recipient)
    /\ ~(request.amount.u < 0 \/ request.amount = Zero)
    /\ is_token_supported(request.token)

\* PaymentService::validate_payment_request: TRUE when the request passes.
validate_payment_request(request) ==
    /\ validate_address(request.recipient)
    /\ ~(request.amount.u < 0 \/ request.amount = Zero)
    /\ is_token_supported(request.token)
    /\ ~AmtLT(Amt(CeilingUnits, 0), request.amount)

\* The message of the first check of validate_payment_request that fails.
validation_error(request) ==
    IF ~validate_address(request.recipient) THEN "Invalid recipient address"
    ELSE IF request.amount.u < 0 \/ request.amount = Zero THEN "Amount must be positive"
    ELSE IF ~is_token_supported(request.token) THEN "Token not supported"
    ELSE "Amount too large"

\* Mutant of new_payment: the payment expires the moment it is created.
new_payment_without_window(id, request, c, t) ==
    [ id            |-> id,
      recipient     |-> request.recipient,
      amount        |-> request.amount,
      token         |-> request.token,
      fee_recipient |-> c.fee_wallet,
      fee_amount    |-> c.fee_amount,
      fee_token     |-> c.fee_token,
      status        |-> "Pending",
      created_at    |-> t,
      expires_at    |-> t,
      signature     |-> NoSignature,
      verified_at   |-> NoTime ]

\* The Payment built by create_payment_with_fee (label, message, url and qr_code
\* are strings derived from the other fields and are left out).
new_payment(id, request, c, t) ==
    [ id            |-> id,
      recipient     |-> request.recipient,
      amount        |-> request.amount,
      token         |-> request.token,
      fee_recipient |-> c.fee_wallet,
      fee_amount    |-> c.fee_amount,
      fee_token     |-> c.fee_token,
      status        |-> "Pending",
      created_at    |-> t,
      expires_at    |-> t + ValidityMinutes,
      signature     |-> NoSignature,
      verified_at   |-> NoTime ]

\* Mutant of save_payment: an entry that exists keeps its status.
save_payment_keeping_status(payments, id, payment) ==
    [payments EXCEPT ![id] = IF payments[id] = NoPayment THEN payment
                             ELSE [payment EXCEPT !.status = payments[id].status]]

\* StorageService::save_payment: HashMap::insert under the write lock.
save_payment(payments, id, payment) == [payments EXCEPT ![id] = payment]

\* PaymentService::create_payment_with_fee with payment_id = id and Utc::now() = t:
\* the map after it and what it returns.
create_payment_with_fee(payments, id, request, c, t) ==
    IF validate_payment_request(request)
    THEN [payments |-> save_payment(payments, id, new_payment(id, request, c, t)),
          result |-> Ok(new_payment(id, request, c, t))]
    ELSE [payments |-> payments, result |-> Err(validation_error(request))]

\* StorageService::get_payment: a clone of the entry under the read lock.
get_payment(payments, id) == payments[id]

\* Mutant of is_expired_entry: an entry is removed at the instant it expires.
is_expired_entry_at_boundary(payment, t) == t >= payment.expires_at

\* The filter of StorageService::cleanup_expired_payments.
is_expired_entry(payment, t) == t > payment.expires_at

expired_keys(payments, t) ==
    {k \in DOMAIN payments : payments[k] # NoPayment /\ is_expired_entry(payments[k], t)}

\* StorageService::cleanup_expired_payments: the map after the removals.
cleanup_expired_payments(payments, t) ==
    [k \in DOMAIN payments |-> IF k \in expired_keys(payments, t) THEN NoPayment ELSE payments[k]]

-----------------------------------------------------------------------------
(* The ledger, as RpcClient::get_transaction reports it *)

Signatures == {"sig1", "sig2"}
BadSignature == "not-a-signature"       \* Signature::from_str fails on it

NoTx == [found |-> FALSE]

\* The mint a token's balances are kept under on the ledger.
MintOf(token) ==
    IF is_token_supported(token) THEN get_token_config(token).mint ELSE "mint-of-" \o token

RECURSIVE SumAmounts(_)
SumAmounts(credits) ==
    IF credits = {} THEN Zero
    ELSE LET c == CHOOSE x \in credits : TRUE
         IN  AmtAdd(c.amount, SumAmounts(credits \ {c}))

\* A confirmed transaction that credited `credits` (a set of [to, token, amount]):
\* the snapshots of its meta.  Native balances are lamports, kept as
\* [u, n] = lamports / 10^9 and lamports % 10^9; balances start at zero.
ConfirmedTx(credits, failed) ==
    LET keys == {"payer"} \cup {c.to : c \in credits}
        done == IF failed THEN {} ELSE credits
        owners == {<<c.to, c.token>> : c \in {x \in credits : x.token # "SOL"}}
    IN  [ found               |-> TRUE,
          meta                |-> TRUE,
          err                 |-> failed,
          account_keys        |-> keys,
          pre_balances        |-> [k \in keys |-> Zero],
          post_balances       |-> [k \in keys |->
                                    SumAmounts({c \in done : c.to = k /\ c.token = "SOL"})],
          pre_token_balances  |-> {[owner |-> o[1], mint |-> MintOf(o[2]), ui_amount |-> Zero]
                                    : o \in owners},
          post_token_balances |-> {[owner |-> o[1], mint |-> MintOf(o[2]), ui_amount |->
                                      SumAmounts({c \in done : c.to = o[1] /\ c.token = o[2]})]
                                    : o \in owners} ]

\* A transaction the node returns without status meta.
TxWithoutMeta == [found |-> TRUE, meta |-> FALSE]

MainCredit(p) == [to |-> p.recipient, token |-> p.token, amount |-> p.amount]
FeeCredit(p) == [to |-> p.fee_recipient, token |-> p.fee_token, amount |-> p.fee_amount]

\* What a payer may have put on the ledger for payment p.
Shapes == {"full", "mainOnly", "feeOnly", "failed", "noMeta"}

TxFor(p, shape) ==
    CASE shape = "full"     -> ConfirmedTx({MainCredit(p), FeeCredit(p)}, FALSE)
      [] shape = "mainOnly" -> ConfirmedTx({MainCredit(p)}, FALSE)
      [] shape = "feeOnly"  -> ConfirmedTx({FeeCredit(p)}, FALSE)
      [] shape = "failed"   -> ConfirmedTx({MainCredit(p), FeeCredit(p)}, TRUE)
      [] shape = "noMeta"   -> TxWithoutMeta

\* How far from the expected amount a payer's transfer may be.
Offsets == {Amt(0, 500), Amt(0, 1000), Amt(0, 10000000)}    \* 0.0000005, 0.000001, 0.01
Legs == {"main", "fee"}

\* The amount moved up (sign = 1) or down (sign = -1) by off.
shifted(amount, off, sign) == IF sign = 1 THEN AmtAdd(amount, off) ELSE AmtSub(amount, off)

\* A successful transaction for payment p whose transfer of one leg is off by `off`.
TxOffBy(p, leg, off, sign) ==
    ConfirmedTx({[MainCredit(p) EXCEPT
                     !.amount = IF leg = "main" THEN shifted(@, off, sign) ELSE @],
                 [FeeCredit(p) EXCEPT
                     !.amount = IF leg = "fee" THEN shifted(@, off, sign) ELSE @]}, FALSE)

-----------------------------------------------------------------------------
(* MultichainService: verification (multichain.rs) *)

Tolerance == Amt(0, 1000)       \* 0.000001 display units

\* (actual_change - expected_amount).abs() < tolerance
within_tolerance(actual_change, expected_amount) ==
    AmtLT(AmtAbs(AmtSub(actual_change, expected_amount)), Tolerance)

verify_sol_transfer_in_transaction(tx, recipient, expected_amount) ==
    IF recipient \in tx.account_keys
    THEN Ok(within_tolerance(AmtSub(tx.post_balances[recipient], tx.pre_balances[recipient]),
                             expected_amount))
    ELSE Ok(FALSE)

\* pre_balances.iter().find(owner, mint).map(ui_amount).unwrap_or(0.0)
pre_amount(tx, recipient, mint) ==
    LET hits == {b \in tx.pre_token_balances : b.owner = recipient /\ b.mint = mint}
    IN  IF hits = {} THEN Zero ELSE (CHOOSE b \in hits : TRUE).ui_amount

verify_spl_transfer_in_transaction(tx, recipient, expected_amount, token) ==
    IF ~is_token_supported(token) THEN Err("Token not supported")
    ELSE IF get_token_config(token).mint = NoMint THEN Err("No mint for token")
    ELSE LET mint == get_token_config(token).mint
         IN  Ok(\E post \in tx.post_token_balances :
                    /\ post.owner = recipient
                    /\ post.mint = mint
                    /\ within_tolerance(AmtSub(post.ui_amount, pre_amount(tx, recipient, mint)),
                                        expected_amount))

verify_transfer_in_transaction(tx, recipient, expected_amount, token) ==
    IF token = "SOL"
    THEN verify_sol_transfer_in_transaction(tx, recipient, expected_amount)
    ELSE verify_spl_transfer_in_transaction(tx, recipient, expected_amount, token)

\* Mutant of both_legs_valid: the fee leg is not required.
both_legs_valid_main_only(main_transfer_valid, fee_transfer_valid) == main_transfer_valid

\* is_valid of the TransactionVerification
both_legs_valid(main_transfer_valid, fee_transfer_valid) ==
    main_transfer_valid /\ fee_transfer_valid

\* meta.as_ref().map(|meta| meta.err.is_some()).unwrap_or(true)
failed_or_no_meta(tx) == IF tx.meta THEN tx.err ELSE TRUE

\* Mutant of verify_transaction: a signature the node has not seen is reported
\* like a transaction that failed.
verify_transaction_not_found_as_failed(ledger, c, signature, expected_recipient, expected_amount, expected_token, rpc_up) ==
    IF signature = BadSignature THEN Err("Invalid signature")
    ELSE IF ~rpc_up THEN Err("RPC request failed")
    ELSE Ok([is_valid |-> FALSE, details |-> "Transaction failed or not found",
             main_transfer_valid |-> FALSE, fee_transfer_valid |-> FALSE])

\* MultichainService::verify_transaction.  rpc_up is whether the RPC node answers;
\* get_transaction is an Err for a signature the node has not seen.
verify_transaction(ledger, c, signature, expected_recipient, expected_amount, expected_token, rpc_up) ==
    IF signature = BadSignature THEN Err("Invalid signature")
    ELSE IF ~rpc_up THEN Err("RPC request failed")
    ELSE IF ~ledger[signature].found THEN Err("Transaction not found")
    ELSE LET tx == ledger[signature] IN
         IF failed_or_no_meta(tx)
         THEN Ok([is_valid |-> FALSE, details |-> "Transaction failed or not found",
                  main_transfer_valid |-> FALSE, fee_transfer_valid |-> FALSE])
         ELSE LET main == verify_transfer_in_transaction(tx, expected_recipient,
                                                         expected_amount, expected_token)
              IN  IF main.kind = "err" THEN main
                  ELSE IF ~validate_address(c.fee_wallet) THEN Err("Invalid fee wallet")
                  ELSE LET fee == verify_transfer_in_transaction(tx, c.fee_wallet,
                                                                 c.fee_amount, c.fee_token)
                       IN  IF fee.kind = "err" THEN fee
                           ELSE Ok([is_valid |-> both_legs_valid(main.value, fee.value),
                                    details |-> "Main transfer, Fee transfer",
                                    main_transfer_valid |-> main.value,
                                    fee_transfer_valid |-> fee.value])

-----------------------------------------------------------------------------
(* PaymentService::verify_payment (payment.rs), one task per request *)

Verifiers == {"v1", "v2"}        \* concurrent verify requests

NoResult == [kind |-> "none"]

IdleTask ==
    [pc |-> "idle", id |-> 0, sig |-> NoSignature, payment |-> NoPayment,
     looked |-> FALSE, result |-> NoResult]

\* Mutant of is_expired: the comparison the wrong way round.
is_expired_inverted(payment, t) == t < payment.expires_at

\* Utc::now() > payment.expires_at
is_expired(payment, t) == t > payment.expires_at

\* matches!(payment.status, PaymentStatus::Completed)
is_completed(payment) == payment.status = "Completed"

expired_result ==
    Ok([success |-> FALSE, status |-> "Expired", verified |-> FALSE,
        signature |-> NoSignature, details |-> "Payment has expired"])

already_verified_result(payment) ==
    Ok([success |-> TRUE, status |-> "Completed", verified |-> TRUE,
        signature |-> payment.signature, details |-> "Already verified"])

completed_result(signature, details) ==
    Ok([success |-> TRUE, status |-> "Completed", verified |-> TRUE,
        signature |-> signature, details |-> details])

\* Mutant of pending_result: a verification that does not match fails the payment.
pending_result_as_failed(details) ==
    Ok([success |-> FALSE, status |-> "Failed", verified |-> FALSE,
        signature |-> NoSignature, details |-> details])

pending_result(details) ==
    Ok([success |-> FALSE, status |-> "Pending", verified |-> FALSE,
        signature |-> NoSignature, details |-> details])

\* The task when it returns `result`.
finished(v, result) ==
    [v EXCEPT !.pc = "done", !.sig = NoSignature, !.payment = NoPayment, !.result = result]

\* Lines 172-201, which run without yielding: the lookup ("Payment not found" is
\* an Err), then the expiry check, then the already-verified check, then the parse
\* of the recipient, in the order of the code.
verify_start(payments, id, signature, t) ==
    LET found == get_payment(payments, id)
        v == [IdleTask EXCEPT !.id = id, !.sig = signature, !.payment = found]
    IN  IF found = NoPayment THEN finished(v, Err("Payment not found"))
        ELSE IF is_expired(found, t)
        THEN [v EXCEPT !.pc = "save_expired", !.payment.status = "Expired"]
        ELSE IF is_completed(found) THEN finished(v, already_verified_result(found))
        ELSE IF ~validate_address(found.recipient) THEN finished(v, Err("Invalid recipient"))
        ELSE [v EXCEPT !.pc = "net"]

\* Mutant of mark_completed: the signature is not recorded.
mark_completed_without_signature(payment, signature, t) ==
    [payment EXCEPT !.status = "Completed", !.verified_at = t]

\* Lines 209-213: the local payment after a valid verification.
mark_completed(payment, signature, t) ==
    [payment EXCEPT !.status = "Completed", !.signature = signature, !.verified_at = t]

\* Lines 202-238 up to the save: the network verification and what follows from it.
verify_net(v, ledger, c, t, rpc_up) ==
    LET verification == verify_transaction(ledger, c, v.sig, v.payment.recipient,
                                           v.payment.amount, v.payment.token, rpc_up)
        w == [v EXCEPT !.looked = TRUE]
    IN  IF verification.kind = "err" THEN finished(w, verification)
        ELSE IF verification.value.is_valid
        THEN [w EXCEPT !.pc = "save_completed",
                       !.payment = mark_completed(v.payment, v.sig, t)]
        ELSE finished(w, pending_result(verification.value.details))

-----------------------------------------------------------------------------
(* Building the transaction (main.rs): transaction_post,                    *)
(* create_payment_transaction and get_recent_blockhash_with_retries          *)

RECURSIVE Pow10(_)
Pow10(k) == IF k = 0 THEN 1 ELSE 10 * Pow10(k - 1)

\* (amount * 10^decimals) as u64, for an amount >= 0 and decimals <= 9
to_minor(amount, decimals) ==
    amount.u * Pow10(decimals) + (amount.n \div Pow10(9 - decimals))

\* spl_associated_token_account::get_associated_token_address
Ata(owner, mint) == <<owner, mint>>

\* system_instruction::transfer
SolTransfer(from, to, lamports) ==
    [kind |-> "transfer", asset |-> "SOL", from |-> from, to |-> to, amount |-> lamports]

\* spl_associated_token_account::instruction::create_associated_token_account
CreateAta(payer, wallet, mint) ==
    [kind |-> "create_account", payer |-> payer, wallet |-> wallet, mint |-> mint]

\* spl_token::instruction::transfer
SplTransfer(mint, owner, wallet, amount) ==
    [kind |-> "transfer", asset |-> mint, from |-> Ata(owner, mint), to |-> Ata(wallet, mint),
     amount |-> amount]

\* Lines 217-256: the instructions of the main payment, or the bail.
main_leg(payment, payer) ==
    IF payment.token = "SOL"
    THEN Ok(<<SolTransfer(payer, payment.recipient, to_minor(payment.amount, 9))>>)
    ELSE IF payment.token \notin {"USDC", "USDT"} THEN Err("Unsupported token")
    ELSE LET mint == IF payment.token = "USDC" THEN MintUSDC ELSE MintUSDT
             decimals == IF payment.token = "USDC" \/ payment.token = "USDT" THEN 6 ELSE 9
         IN  Ok(<<CreateAta(payer, payment.recipient, mint),
                  SplTransfer(mint, payer, payment.recipient,
                              to_minor(payment.amount, decimals))>>)

\* Mutant of fee_leg: the fee transfer is left out.
fee_leg_without_transfer(payment, payer) ==
    <<CreateAta(payer, payment.fee_recipient, MintUSDC)>>

\* Lines 258-284: the instructions of the fee, in USDC whatever payment.fee_token is.
fee_leg(payment, payer) ==
    <<CreateAta(payer, payment.fee_recipient, MintUSDC),
      SplTransfer(MintUSDC, payer, payment.fee_recipient, to_minor(payment.fee_amount, 6))>>

rpc_endpoints ==
    << "https://api.mainnet-beta.solana.com",
       "https://solana-api.projectserum.com",
       "https://rpc.ankr.com/solana" >>

RetriesPerEndpoint == 2      \* for retry in 0..2
PerAttemptSecs == 10         \* timeout(Duration::from_secs(10), ...)
BackoffSecs == 1             \* sleep(Duration::from_millis(1000))
DeadlineSecs == 20           \* timeout(Duration::from_secs(20), create_payment_transaction)

\* The blockhash an endpoint answers with.
Blockhash(endpoint) == <<"blockhash of", rpc_endpoints[endpoint]>>

Payers == {"payer", BadAddress}
Outcomes == {"ok", "error", "timeout"}

IdleCompose ==
    [pc |-> "idle", id |-> 0, payer |-> "None", payment |-> NoPayment, instructions |-> <<>>,
     endpoint |-> 0, retry |-> 0, elapsed |-> 0, attempts |-> 0, successes |-> 0,
     result |-> NoResult]

\* The display amount the ledger reports for `minor` units of a token with
\* `decimals` decimals (ui_amount, or lamports / 10^9).
from_minor(minor, decimals) ==
    Amt(minor \div Pow10(decimals), (minor % Pow10(decimals)) * Pow10(9 - decimals))

\* The symbol and the decimals of the asset an instruction moves.
\* The position in the registry of the token whose mint is `asset`.
asset_symbol(asset) ==
    CHOOSE i \in 1..Len(supported_tokens) : supported_tokens[i].mint = asset

asset_decimals(asset) ==
    IF asset = "SOL" THEN 9 ELSE supported_tokens[asset_symbol(asset)].decimals

\* The confirmed transaction the ledger shows when `transaction` is signed by the
\* payer and executes as composed: every transfer credits the wallet it pays.
Execute(transaction) ==
    LET ins == transaction.instructions
    IN  ConfirmedTx({[ix     |-> i,
                      to     |-> IF ins[i].asset = "SOL" THEN ins[i].to ELSE ins[i].to[1],
                      token  |-> IF ins[i].asset = "SOL" THEN "SOL"
                                 ELSE supported_tokens[asset_symbol(ins[i].asset)].symbol,
                      amount |-> from_minor(ins[i].amount, asset_decimals(ins[i].asset))]
                     : i \in {j \in 1..Len(ins) : ins[j].kind = "transfer"}}, FALSE)

\* Message::new(&instructions, Some(&payer)), Transaction::new_unsigned, and the
\* blockhash set on the message.
new_transaction(instructions, payer, recent_blockhash) ==
    [fee_payer |-> payer, instructions |-> instructions, recent_blockhash |-> recent_blockhash]

\* bincode::serialize, then base64
serialize(transaction) == <<"base64", <<"bincode", transaction>>>>

\* transaction_post up to the first network call: the lookup (404 when absent),
\* then create_payment_transaction lines 201-284.
compose_start(payments, id, payer) ==
    LET found == get_payment(payments, id)
        c == [IdleCompose EXCEPT !.id = id, !.payer = payer, !.payment = found]
    IN  IF found = NoPayment THEN [c EXCEPT !.pc = "done", !.result = [kind |-> "not_found"]]
        ELSE IF ~validate_address(payer)
        THEN [c EXCEPT !.pc = "done", !.result = Err("Invalid payer address")]
        ELSE IF ~validate_address(found.recipient)
        THEN [c EXCEPT !.pc = "done", !.result = Err("Invalid recipient address")]
        ELSE IF ~validate_address(found.fee_recipient)
        THEN [c EXCEPT !.pc = "done", !.result = Err("Invalid fee recipient address")]
        ELSE LET main == main_leg(found, payer)
             IN  IF main.kind = "err" THEN [c EXCEPT !.pc = "done", !.result = main]
                 ELSE [c EXCEPT !.pc = "attempt", !.endpoint = 1, !.retry = 0,
                                !.instructions = main.value \o fee_leg(found, payer)]

\* The longest the request can have run when it reaches attempt (endpoint, retry):
\* every earlier attempt took its full timeout.
longest_before(endpoint, retry) ==
    LET tries == RetriesPerEndpoint * (endpoint - 1) + retry
        sleeps == (RetriesPerEndpoint - 1) * (endpoint - 1) + retry
    IN  PerAttemptSecs * tries + BackoffSecs * sleeps

\* Mutant of after_attempt: the backoff also follows an endpoint's last try.
after_attempt_always_sleeping(c, outcome) ==
    LET d == [c EXCEPT !.attempts = c.attempts + 1]
    IN  IF outcome = "ok"
        THEN [d EXCEPT !.pc = "done", !.successes = c.successes + 1,
                       !.result = Ok(serialize(new_transaction(c.instructions, c.payer,
                                                               Blockhash(c.endpoint))))]
        ELSE LET e == [d EXCEPT !.elapsed = c.elapsed +
                                   (IF outcome = "timeout" THEN PerAttemptSecs ELSE 0)]
             IN  IF c.retry < RetriesPerEndpoint THEN [e EXCEPT !.pc = "sleep"]
                 ELSE IF c.endpoint < Len(rpc_endpoints)
                 THEN [e EXCEPT !.endpoint = c.endpoint + 1, !.retry = 0]
                 ELSE [e EXCEPT !.pc = "done",
                                !.result = Err("Failed to get blockhash: All RPC endpoints failed after retries")]

\* Lines 365-385 and 288-310: what follows one attempt.  An attempt that times
\* out has taken PerAttemptSecs; an answer or an error may come at once.
after_attempt(c, outcome) ==
    LET d == [c EXCEPT !.attempts = c.attempts + 1]
    IN  IF outcome = "ok"
        THEN [d EXCEPT !.pc = "done", !.successes = c.successes + 1,
                       !.result = Ok(serialize(new_transaction(c.instructions, c.payer,
                                                               Blockhash(c.endpoint))))]
        ELSE LET e == [d EXCEPT !.elapsed = c.elapsed +
                                   (IF outcome = "timeout" THEN PerAttemptSecs ELSE 0)]
             IN  IF c.retry < RetriesPerEndpoint - 1 THEN [e EXCEPT !.pc = "sleep"]
                 ELSE IF c.endpoint < Len(rpc_endpoints)
                 THEN [e EXCEPT !.endpoint = c.endpoint + 1, !.retry = 0]
                 ELSE [e EXCEPT !.pc = "done",
                                !.result = Err("Failed to get blockhash: All RPC endpoints failed after retries")]

\* Mutant of after_sleep: the try on the same endpoint is not counted.
after_sleep_same_try(c) ==
    [c EXCEPT !.pc = "attempt", !.elapsed = c.elapsed + BackoffSecs]

\* Line 379: the backoff before the next try on the same endpoint.
after_sleep(c) ==
    [c EXCEPT !.pc = "attempt", !.retry = c.retry + 1, !.elapsed = c.elapsed + BackoffSecs]

\* Mutant of timed_out: the deadline is reported as the failure of all endpoints.
timed_out_as_unavailable(c) ==
    [c EXCEPT !.pc = "done",
              !.result = Err("Failed to get blockhash: All RPC endpoints failed after retries")]

\* Lines 179-189: the answer when the deadline of transaction_post expires.
timed_out(c) == [c EXCEPT !.pc = "done", !.result = [kind |-> "timeout"]]

\* Whether DeadlineSecs can have passed while the request waits where it is.
deadline_can_expire(c) ==
    \/ /\ c.pc = "attempt"
       /\ longest_before(c.endpoint, c.retry) + PerAttemptSecs >= DeadlineSecs
    \/ /\ c.pc = "sleep"
       /\ longest_before(c.endpoint, c.retry) + PerAttemptSecs + BackoffSecs >= DeadlineSecs

-----------------------------------------------------------------------------
(* Direct calls of the StorageService methods (storage.rs), under its RwLock *)

Clients == {"c1", "c2"}
NoClient == "None"
Ops == {"save", "get", "delete", "list", "cleanup"}

\* RwLock::new
FreeLock == [writer |-> NoClient, readers |-> {}]

\* self.payments.write().await returns when nobody holds the lock.
can_write(l) == l.writer = NoClient /\ l.readers = {}

\* self.payments.read().await returns when no writer holds the lock.
can_read(l) == l.writer = NoClient

is_write_op(op) == op \in {"save", "delete", "cleanup"}

acquire(l, c, op) ==
    IF is_write_op(op) THEN [l EXCEPT !.writer = c]
    ELSE [l EXCEPT !.readers = l.readers \cup {c}]

\* The guard is dropped when the method returns.
release(l, c) ==
    [l EXCEPT !.writer = IF @ = c THEN NoClient ELSE @, !.readers = @ \ {c}]

\* The RwLock with the tasks that wait for it: tokio's RwLock grants the lock in
\* the order of the requests.
QueueLock == [writer |-> NoClient, readers |-> {}, queue |-> <<>>]

\* read().await or write().await is reached: the task joins the waiters.
enqueue(l, c) == [l EXCEPT !.queue = Append(@, c)]

\* The task is the first waiter and what it asks for is free.
can_grant(l, c, op) ==
    /\ l.queue # <<>>
    /\ Head(l.queue) = c
    /\ IF is_write_op(op) THEN can_write(l) ELSE can_read(l)

grant(l, c, op) == [acquire(l, c, op) EXCEPT !.queue = Tail(@)]

\* The task holds a guard of the lock.
holds(l, c) == l.writer = c \/ c \in l.readers

\* The task waits for the lock.
waits(l, c) == \E i \in 1..Len(l.queue) : l.queue[i] = c

\* The task that builds a transaction, as a user of the lock.
Builder == "build"

IdleCall == [pc |-> "idle", op |-> "none", id |-> 0, payment |-> NoPayment, ret |-> NoResult]

\* StorageService::delete_payment: the map after the removal, and is_some().
delete_payment(payments, id) ==
    [payments |-> [payments EXCEPT ![id] = NoPayment], ret |-> payments[id] # NoPayment]

\* StorageService::get_all_payments: a clone of the map.
get_all_payments(payments) ==
    [k \in {i \in DOMAIN payments : payments[i] # NoPayment} |-> payments[k]]

\* expired_keys.len()
cleanup_count(payments, t) == Cardinality(expired_keys(payments, t))

\* The request whose payment the direct calls save.
StoreRequest == [recipient |-> "rcpA", amount |-> Amt(0, 500000000), token |-> "SOL"]

\* The payments save_payment is called with: a new one (payment.rs:128), or the
\* caller's copy of the stored one marked Expired (:178) or Completed (:215).
Payloads(payments, id, c, t) ==
    {new_payment(id, StoreRequest, c, t)}
    \cup (IF payments[id] = NoPayment THEN {}
          ELSE {[payments[id] EXCEPT !.status = "Expired"],
                mark_completed(payments[id], "sig1", t)})

\* The body of the method, run under the lock: the map after it and what it returns.
run_call(k, payments, t) ==
    CASE k.op = "save" ->
           [payments |-> save_payment(payments, k.id, k.payment), ret |-> Ok("unit")]
      [] k.op = "get" ->
           [payments |-> payments, ret |-> Ok(get_payment(payments, k.id))]
      [] k.op = "delete" ->
           [payments |-> delete_payment(payments, k.id).payments,
            ret |-> Ok(delete_payment(payments, k.id).ret)]
      [] k.op = "list" ->
           [payments |-> payments, ret |-> Ok(get_all_payments(payments))]
      [] k.op = "cleanup" ->
           [payments |-> cleanup_expired_payments(payments, t),
            ret |-> Ok(cleanup_count(payments, t))]

-----------------------------------------------------------------------------
(* The state machine *)

Init ==
    /\ cfg \in {c \in {load(f) : f \in FeeTokenChoices} : validate(c)}
    /\ now = 0
    /\ store = [k \in PaymentIds |-> NoPayment]
    /\ nextId = 0
    /\ chain = [s \in Signatures |-> NoTx]
    /\ ver = [t \in Verifiers |-> IdleTask]
    /\ comp = IdleCompose
    /\ lock = FreeLock
    /\ call = [c \in Clients |-> IdleCall]
    /\ created = NoResult

\* The wall clock advances.
Tick ==
    /\ now < MaxTicks * TickStep
    /\ now' = now + TickStep
    /\ UNCHANGED <<cfg, store, nextId, chain, ver, comp, lock, call, created>>

\* POST /api/payment/create: PaymentService::create_payment_with_fee.
CreatePayment(request) ==
    /\ nextId + 1 \in DOMAIN store
    /\ created' = create_payment_with_fee(store, nextId + 1, request, cfg, now).result
    /\ store' = create_payment_with_fee(store, nextId + 1, request, cfg, now).payments
    /\ nextId' = IF validate_payment_request(request) THEN nextId + 1 ELSE nextId
    /\ UNCHANGED <<cfg, now, chain, ver, comp, lock, call>>

\* GET /api/payment/{id}: PaymentService::get_payment reads and changes nothing.
GetPayment(id) ==
    /\ get_payment(store, id) \in {NoPayment, store[id]}
    /\ UNCHANGED vars

\* PaymentService::cleanup_expired_payments.
Sweep ==
    /\ store' = cleanup_expired_payments(store, now)
    /\ UNCHANGED <<cfg, now, nextId, chain, ver, comp, lock, call, created>>

\* A payer's transaction for payment id is confirmed on the ledger under sig.
\* Signatures are interchangeable, so "sig1" is taken to be the first one
\* confirmed; "sig2" is a second payment in full of the same payment.
Land(sig, id, shape) ==
    /\ ~chain[sig].found
    /\ sig = "sig2" => (chain["sig1"].found /\ shape = "full")
    /\ store[id] # NoPayment
    /\ chain' = [chain EXCEPT ![sig] = TxFor(store[id], shape)]
    /\ UNCHANGED <<cfg, now, store, nextId, ver, comp, lock, call, created>>

\* A payer's transaction for payment id, one leg off by a small amount, is
\* confirmed on the ledger under sig.
LandOffBy(sig, id, leg, off, sign) ==
    /\ ~chain[sig].found
    /\ store[id] # NoPayment
    /\ chain' = [chain EXCEPT ![sig] = TxOffBy(store[id], leg, off, sign)]
    /\ UNCHANGED <<cfg, now, store, nextId, ver, comp, lock, call, created>>

\* The payer signs the transaction the last build-transaction request returned
\* and it is confirmed under sig, executed as composed.
LandComposed(sig) ==
    /\ ~chain[sig].found
    /\ comp.pc = "done" /\ comp.result.kind = "ok"
    /\ chain' = [chain EXCEPT ![sig] = Execute(comp.result.value[2][2])]
    /\ UNCHANGED <<cfg, now, store, nextId, ver, comp, lock, call, created>>

\* POST /api/payment/{id}/verify arrives: the lookup under the read lock and the
\* checks that follow it.
VerifyStart(t, id, sig) ==
    /\ ver[t].pc \in {"idle", "done"}
    /\ ver' = [ver EXCEPT ![t] = verify_start(store, id, sig, now)]
    /\ UNCHANGED <<cfg, now, store, nextId, chain, comp, lock, call, created>>

\* Line 178: the save of the expired payment, and the return.
VerifySaveExpired(t) ==
    /\ ver[t].pc = "save_expired"
    /\ store' = save_payment(store, ver[t].id, ver[t].payment)
    /\ ver' = [ver EXCEPT ![t] = finished(ver[t], expired_result)]
    /\ UNCHANGED <<cfg, now, nextId, chain, comp, lock, call, created>>

VerifyNet(t, rpc_up) ==
    /\ ver[t].pc = "net"
    /\ ver' = [ver EXCEPT ![t] = verify_net(ver[t], chain, cfg, now, rpc_up)]
    /\ UNCHANGED <<cfg, now, store, nextId, chain, comp, lock, call, created>>

\* Line 215: the save of the completed payment, and the return.
VerifySaveCompleted(t) ==
    /\ ver[t].pc = "save_completed"
    /\ store' = save_payment(store, ver[t].id, ver[t].payment)
    /\ ver' = [ver EXCEPT ![t] = finished(ver[t], completed_result(ver[t].sig, "Main transfer, Fee transfer"))]
    /\ UNCHANGED <<cfg, now, nextId, chain, comp, lock, call, created>>

\* POST /api/payment/{id}/transaction arrives.
ComposeStart(id, payer) ==
    /\ comp.pc \in {"idle", "done"}
    /\ comp' = compose_start(store, id, payer)
    /\ UNCHANGED <<cfg, now, store, nextId, chain, ver, lock, call, created>>

\* One getLatestBlockhash attempt ends; it cannot end after the deadline.
ComposeAttempt(outcome) ==
    /\ comp.pc = "attempt"
    /\ after_attempt(comp, outcome).elapsed < DeadlineSecs
    /\ comp' = after_attempt(comp, outcome)
    /\ UNCHANGED <<cfg, now, store, nextId, chain, ver, lock, call, created>>

ComposeSleep ==
    /\ comp.pc = "sleep"
    /\ after_sleep(comp).elapsed < DeadlineSecs
    /\ comp' = after_sleep(comp)
    /\ UNCHANGED <<cfg, now, store, nextId, chain, ver, lock, call, created>>

\* Mutant of ComposeDeadline: the abandoned request takes its payment with it.
ComposeDeadlineDroppingPayment ==
    /\ deadline_can_expire(comp)
    /\ comp' = timed_out(comp)
    /\ store' = [store EXCEPT ![comp.id] = NoPayment]
    /\ UNCHANGED <<cfg, now, nextId, chain, ver, lock, call, created>>

\* The deadline of transaction_post expires while the request waits.
ComposeDeadline ==
    /\ deadline_can_expire(comp)
    /\ comp' = timed_out(comp)
    /\ UNCHANGED <<cfg, now, store, nextId, chain, ver, lock, call, created>>

\* create_payment_transaction called by itself, without the deadline of
\* transaction_post: one getLatestBlockhash attempt ends.
FetchAttempt(outcome) ==
    /\ comp.pc = "attempt"
    /\ comp' = after_attempt(comp, outcome)
    /\ UNCHANGED <<cfg, now, store, nextId, chain, ver, lock, call, created>>

\* The backoff ends.
FetchSleep ==
    /\ comp.pc = "sleep"
    /\ comp' = after_sleep(comp)
    /\ UNCHANGED <<cfg, now, store, nextId, chain, ver, lock, call, created>>

-----------------------------------------------------------------------------
(* The requests with the lock of the store made explicit *)

\* A StorageService method is called and reaches its read() or write().
QueuedCall(c, op, id) ==
    /\ call[c].pc \in {"idle", "done"}
    /\ \E payment \in (IF op = "save" THEN Payloads(store, id, cfg, now) ELSE {NoPayment}) :
          call' = [call EXCEPT ![c] = [IdleCall EXCEPT !.pc = "wait", !.op = op, !.id = id,
                                                       !.payment = payment]]
    /\ lock' = enqueue(lock, c)
    /\ UNCHANGED <<cfg, now, store, nextId, chain, ver, comp, created>>

QueuedAcquire(c) ==
    /\ call[c].pc = "wait"
    /\ can_grant(lock, c, call[c].op)
    /\ lock' = grant(lock, c, call[c].op)
    /\ call' = [call EXCEPT ![c].pc = "held"]
    /\ UNCHANGED <<cfg, now, store, nextId, chain, ver, comp, created>>

\* verify_payment reaches get_payment (payment.rs:172, storage.rs:30).
VerifyCall(t, id, sig) ==
    /\ ver[t].pc \in {"idle", "done"}
    /\ ver' = [ver EXCEPT ![t] = [IdleTask EXCEPT !.pc = "wait_get", !.id = id, !.sig = sig]]
    /\ lock' = enqueue(lock, t)
    /\ UNCHANGED <<cfg, now, store, nextId, chain, comp, call, created>>

\* The read lock of get_payment, or the write lock of save_payment, is granted.
VerifyAcquire(t) ==
    /\ ver[t].pc \in {"wait_get", "save_expired", "save_completed"}
    /\ can_grant(lock, t, IF ver[t].pc = "wait_get" THEN "get" ELSE "save")
    /\ lock' = grant(lock, t, IF ver[t].pc = "wait_get" THEN "get" ELSE "save")
    /\ ver' = [ver EXCEPT ![t].pc = IF @ = "wait_get" THEN "held_get" ELSE @]
    /\ UNCHANGED <<cfg, now, store, nextId, chain, comp, call, created>>

\* Mutant of VerifyRead: the read guard is kept while the request goes on.
VerifyReadKeepingGuard(t) ==
    /\ ver[t].pc = "held_get"
    /\ ver' = [ver EXCEPT ![t] = verify_start(store, ver[t].id, ver[t].sig, now)]
    /\ UNCHANGED <<cfg, now, store, nextId, chain, comp, lock, call, created>>

\* storage.rs:31: the clone is returned and the read guard dropped; then
\* payment.rs:172-201.
VerifyRead(t) ==
    /\ ver[t].pc = "held_get"
    /\ ver' = [ver EXCEPT ![t] = verify_start(store, ver[t].id, ver[t].sig, now)]
    /\ lock' = release(lock, t)
    /\ UNCHANGED <<cfg, now, store, nextId, chain, comp, call, created>>

\* verify_payment reaches save_payment (payment.rs:178, :215; storage.rs:21).
VerifyEnqueueSave(t) ==
    /\ ver[t].pc \in {"save_expired", "save_completed"}
    /\ ~waits(lock, t)
    /\ ~holds(lock, t)
    /\ lock' = enqueue(lock, t)
    /\ UNCHANGED <<cfg, now, store, nextId, chain, ver, comp, call, created>>

\* storage.rs:22-25: the insert under the write guard, and the return.
VerifySave(t) ==
    /\ ver[t].pc \in {"save_expired", "save_completed"}
    /\ lock.writer = t
    /\ store' = save_payment(store, ver[t].id, ver[t].payment)
    /\ ver' = [ver EXCEPT ![t] =
                 finished(ver[t], IF ver[t].pc = "save_expired" THEN expired_result
                                  ELSE completed_result(ver[t].sig, "Main transfer, Fee transfer"))]
    /\ lock' = release(lock, t)
    /\ UNCHANGED <<cfg, now, nextId, chain, comp, call, created>>

\* transaction_post reaches get_payment (main.rs:127, storage.rs:30).
ComposeCall(id, payer) ==
    /\ comp.pc \in {"idle", "done"}
    /\ comp' = [IdleCompose EXCEPT !.pc = "wait_get", !.id = id, !.payer = payer]
    /\ lock' = enqueue(lock, Builder)
    /\ UNCHANGED <<cfg, now, store, nextId, chain, ver, call, created>>

ComposeAcquire ==
    /\ comp.pc = "wait_get"
    /\ can_grant(lock, Builder, "get")
    /\ lock' = grant(lock, Builder, "get")
    /\ comp' = [comp EXCEPT !.pc = "held_get"]
    /\ UNCHANGED <<cfg, now, store, nextId, chain, ver, call, created>>

\* The clone is returned and the read guard dropped; then main.rs:128-150 and
\* create_payment_transaction up to the blockhash request.
ComposeRead ==
    /\ comp.pc = "held_get"
    /\ comp' = compose_start(store, comp.id, comp.payer)
    /\ lock' = release(lock, Builder)
    /\ UNCHANGED <<cfg, now, store, nextId, chain, ver, call, created>>

\* A StorageService method is called; save is given its payment by the caller.
StoreCall(c, op, id) ==
    /\ call[c].pc \in {"idle", "done"}
    /\ \E payment \in (IF op = "save" THEN Payloads(store, id, cfg, now) ELSE {NoPayment}) :
          call' = [call EXCEPT ![c] = [IdleCall EXCEPT !.pc = "wait", !.op = op, !.id = id,
                                                       !.payment = payment]]
    /\ UNCHANGED <<cfg, now, store, nextId, chain, ver, comp, lock, created>>

\* The call gets the lock: write() for save, delete and cleanup, read() for the others.
StoreAcquire(c) ==
    /\ call[c].pc = "wait"
    /\ IF is_write_op(call[c].op) THEN can_write(lock) ELSE can_read(lock)
    /\ lock' = acquire(lock, c, call[c].op)
    /\ call' = [call EXCEPT ![c].pc = "held"]
    /\ UNCHANGED <<cfg, now, store, nextId, chain, ver, comp, created>>

\* The body runs under the lock and the method returns, dropping the guard.
StoreRun(c) ==
    /\ call[c].pc = "held"
    /\ store' = run_call(call[c], store, now).payments
    /\ call' = [call EXCEPT ![c].pc = "done", ![c].payment = NoPayment,
                            ![c].ret = run_call(call[c], store, now).ret]
    /\ lock' = release(lock, c)
    /\ UNCHANGED <<cfg, now, nextId, chain, ver, comp, created>>

Next ==
    \/ Tick
    \/ \E request \in Requests : CreatePayment(request)
    \/ \E id \in PaymentIds : GetPayment(id)
    \/ Sweep
    \/ \E sig \in Signatures, id \in PaymentIds, shape \in Shapes : Land(sig, id, shape)
    \/ \E t \in Verifiers, id \in PaymentIds, sig \in Signatures \cup {BadSignature} :
           VerifyStart(t, id, sig)
    \/ \E t \in Verifiers : VerifySaveExpired(t)
    \/ \E t \in Verifiers, rpc_up \in BOOLEAN : VerifyNet(t, rpc_up)
    \/ \E t \in Verifiers : VerifySaveCompleted(t)

\* The payment lifecycle: create, get, verify, sweep.
Spec == Init /\ [][Next]_vars

\* Building transactions.  A build-transaction request reads the store once and
\* writes nothing, so it is explored apart from the verify requests.
NextCompose ==
    \/ Tick
    \/ \E request \in Requests : CreatePayment(request)
    \/ Sweep
    \/ \E id \in PaymentIds, payer \in Payers : ComposeStart(id, payer)
    \/ \E outcome \in Outcomes : ComposeAttempt(outcome)
    \/ ComposeSleep
    \/ ComposeDeadline

SpecCompose == Init /\ [][NextCompose]_vars

\* get_recent_blockhash_with_retries run to its own end.  Every attempt ends,
\* by its answer or by its timeout, and every backoff ends.
NextFetch ==
    \/ Tick
    \/ \E request \in Requests : CreatePayment(request)
    \/ \E id \in PaymentIds, payer \in Payers : ComposeStart(id, payer)
    \/ \E outcome \in Outcomes : FetchAttempt(outcome)
    \/ FetchSleep

SpecFetch ==
    /\ Init
    /\ [][NextFetch]_vars
    /\ WF_vars(\E outcome \in Outcomes : FetchAttempt(outcome))
    /\ WF_vars(FetchSleep)

\* A verify, a build-transaction request and a direct user of the store, with
\* the lock explicit.  Nothing is assumed of the network: an answer may never
\* come.  The lock is granted in order and every body under the lock runs.
LockClients == {"c1"}
LockVerifiers == {"v1"}
LockOutcomes == {"ok", "timeout"}

InitLock ==
    /\ cfg = load("USDC")
    /\ now = 0
    /\ store = [k \in PaymentIds |-> NoPayment]
    /\ nextId = 0
    /\ chain = [s \in Signatures |-> NoTx]
    /\ ver = [t \in Verifiers |-> IdleTask]
    /\ comp = IdleCompose
    /\ lock = QueueLock
    /\ call = [c \in Clients |-> IdleCall]
    /\ created = NoResult

NextLock ==
    \/ \E c \in LockClients, op \in Ops, id \in PaymentIds : QueuedCall(c, op, id)
    \/ \E c \in LockClients : QueuedAcquire(c)
    \/ \E c \in LockClients : StoreRun(c)
    \/ \E id \in PaymentIds : Land("sig1", id, "full")
    \/ \E t \in LockVerifiers, id \in PaymentIds : VerifyCall(t, id, "sig1")
    \/ \E t \in LockVerifiers : VerifyAcquire(t)
    \/ \E t \in LockVerifiers : VerifyRead(t)
    \/ \E t \in LockVerifiers, rpc_up \in BOOLEAN : VerifyNet(t, rpc_up)
    \/ \E t \in LockVerifiers : VerifyEnqueueSave(t)
    \/ \E t \in LockVerifiers : VerifySave(t)
    \/ \E id \in PaymentIds : ComposeCall(id, "payer")
    \/ ComposeAcquire
    \/ ComposeRead
    \/ \E outcome \in LockOutcomes : ComposeAttempt(outcome)
    \/ ComposeSleep
    \/ ComposeDeadline

SpecLock ==
    /\ InitLock
    /\ [][NextLock]_vars
    /\ \A c \in LockClients : WF_vars(QueuedAcquire(c)) /\ WF_vars(StoreRun(c))
    /\ \A t \in LockVerifiers :
          /\ WF_vars(VerifyAcquire(t))
          /\ WF_vars(VerifyRead(t))
          /\ WF_vars(VerifyEnqueueSave(t))
          /\ WF_vars(VerifySave(t))
    /\ WF_vars(ComposeAcquire)
    /\ WF_vars(ComposeRead)

\* Verification of transactions that pay almost the expected amounts.
NextTolerance ==
    \/ Tick
    \/ \E request \in Requests : CreatePayment(request)
    \/ \E id \in PaymentIds, leg \in Legs, off \in Offsets, sign \in {1, -1} :
           LandOffBy("sig1", id, leg, off, sign)
    \/ \E id \in PaymentIds : VerifyStart("v1", id, "sig1")
    \/ VerifySaveExpired("v1")
    \/ \E rpc_up \in BOOLEAN : VerifyNet("v1", rpc_up)
    \/ VerifySaveCompleted("v1")

SpecTolerance == Init /\ [][NextTolerance]_vars

\* Build the transaction, execute it as composed, verify its signature.
RoundTripRequests ==
    [recipient : {"rcpA", FeeWallet},
     amount    : {Amt(0, 500000000), Amt(1, 500000500)},
     token     : {"SOL", "USDC"}]

NextRoundTrip ==
    \/ Tick
    \/ \E request \in RoundTripRequests : CreatePayment(request)
    \/ \E id \in PaymentIds : ComposeStart(id, "payer")
    \/ \E outcome \in Outcomes : ComposeAttempt(outcome)
    \/ ComposeSleep
    \/ ComposeDeadline
    \/ LandComposed("sig1")
    \/ \E id \in PaymentIds : VerifyStart("v1", id, "sig1")
    \/ VerifySaveExpired("v1")
    \/ \E rpc_up \in BOOLEAN : VerifyNet("v1", rpc_up)
    \/ VerifySaveCompleted("v1")

SpecRoundTrip == Init /\ [][NextRoundTrip]_vars

\* Several payments and one confirmed transaction: the same signature is
\* submitted for one payment after the other.
ReusePayments == 2
ReuseIds == 1..ReusePayments
ReuseRequests ==
    {request \in Requests : /\ request.recipient = "rcpA"
                            /\ request.amount = Amt(0, 500000000)
                            /\ request.token \in {"SOL", "USDC"}}

InitReuse ==
    /\ cfg \in {c \in {load(f) : f \in FeeTokenChoices} : validate(c)}
    /\ now = 0
    /\ store = [k \in ReuseIds |-> NoPayment]
    /\ nextId = 0
    /\ chain = [s \in Signatures |-> NoTx]
    /\ ver = [t \in Verifiers |-> IdleTask]
    /\ comp = IdleCompose
    /\ lock = FreeLock
    /\ call = [c \in Clients |-> IdleCall]
    /\ created = NoResult

NextReuse ==
    \/ Tick
    \/ \E request \in ReuseRequests : CreatePayment(request)
    \/ \E id \in ReuseIds : Land("sig1", id, "full")
    \/ \E id \in ReuseIds : VerifyStart("v1", id, "sig1")
    \/ VerifySaveExpired("v1")
    \/ \E rpc_up \in BOOLEAN : VerifyNet("v1", rpc_up)
    \/ VerifySaveCompleted("v1")

SpecReuse == InitReuse /\ [][NextReuse]_vars

\* The store by itself: concurrent direct calls of its methods.
NextStore ==
    \/ Tick
    \/ \E c \in Clients, op \in Ops, id \in PaymentIds : StoreCall(c, op, id)
    \/ \E c \in Clients : StoreAcquire(c)
    \/ \E c \in Clients : StoreRun(c)

SpecStore == Init /\ [][NextStore]_vars

-----------------------------------------------------------------------------
(* What the claims speak of, stated apart from the operators above *)

Present(id) == store[id] # NoPayment

\* Task t takes a step that starts a verify request for payment id.
StartsVerify(t, id) ==
    /\ ver[t].pc \in {"idle", "done"}
    /\ ver'[t] # ver[t]
    /\ ver'[t].id = id

\* Task t returns from its network verification in this step.
LeavesNet(t) == ver[t].pc = "net" /\ ver'[t].pc # "net"

\* Task t writes the store in this step.
Saves(t) == ver[t].pc \in {"save_expired", "save_completed"} /\ ver'[t].pc = "done"

Returned(t) == ver[t].pc = "done" /\ ver[t].result.kind = "ok"

\* The balance delta (post - pre) the transaction shows for account and token is
\* within 0.000001 of amount; the token's asset is the one the registry names.
LegMatches(tx, account, token, amount) ==
    LET close(delta) == AmtLT(AmtAbs(AmtSub(delta, amount)), Amt(0, 1000))
    IN  IF token = "SOL"
        THEN /\ account \in tx.account_keys
             /\ close(AmtSub(tx.post_balances[account], tx.pre_balances[account]))
        ELSE /\ \E i \in 1..Len(supported_tokens) : supported_tokens[i].symbol = token
             /\ \E post \in tx.post_token_balances :
                  /\ post.owner = account
                  /\ \E i \in 1..Len(supported_tokens) :
                       supported_tokens[i].symbol = token /\ supported_tokens[i].mint = post.mint
                  /\ \/ /\ \A pre \in tx.pre_token_balances :
                              ~(pre.owner = post.owner /\ pre.mint = post.mint)
                        /\ close(post.ui_amount)
                     \/ \E pre \in tx.pre_token_balances :
                          /\ pre.owner = post.owner /\ pre.mint = post.mint
                          /\ close(AmtSub(post.ui_amount, pre.ui_amount))

\* The ledger holds, under sig, a transaction that succeeded on-chain.
Succeeded(sig) ==
    /\ sig \in Signatures
    /\ chain[sig].found
    /\ chain[sig].meta
    /\ ~chain[sig].err

\* sig is a successful transaction whose two legs match payment p.
FullMatch(sig, p) ==
    /\ Succeeded(sig)
    /\ LegMatches(chain[sig], p.recipient, p.token, p.amount)
    /\ LegMatches(chain[sig], p.fee_recipient, p.fee_token, p.fee_amount)

-----------------------------------------------------------------------------
(* Claims *)

\* C1: the stored status of a payment only ever changes Pending -> Completed or
\* Pending -> Expired; a Completed or Expired payment keeps its status.
C1_StatusMonotonic ==
    [][\A id \in PaymentIds :
          (Present(id) /\ store'[id] # NoPayment) =>
              \/ store'[id].status = store[id].status
              \/ /\ store[id].status = "Pending"
                 /\ store'[id].status \in {"Completed", "Expired"}]_vars

\* C2: a verify request for a payment stored as Completed returns success at
\* once, whatever the time, without a network lookup and without changing the
\* stored record.
C2_IdempotentVerify ==
    [][\A t \in Verifiers, id \in PaymentIds :
          (StartsVerify(t, id) /\ Present(id) /\ store[id].status = "Completed") =>
              /\ ver'[t].pc = "done"
              /\ ver'[t].result.kind = "ok"
              /\ ver'[t].result.value.verified
              /\ ver'[t].result.value.status = "Completed"
              /\ ~ver'[t].looked
              /\ store' = store]_vars

\* C3: a verify request for a Pending payment made when now > expires_at does
\* no network lookup, persists status Expired and returns not verified, Expired.
C3_ExpiryOnVerify ==
    [][\A t \in Verifiers :
          /\ \A id \in PaymentIds :
                (/\ StartsVerify(t, id)
                 /\ Present(id)
                 /\ store[id].status = "Pending"
                 /\ now > store[id].expires_at) =>
                    /\ ver'[t].pc = "save_expired"
                    /\ ver'[t].payment = [store[id] EXCEPT !.status = "Expired"]
                    /\ ~ver'[t].looked
          /\ (ver[t].pc = "save_expired" /\ ver'[t] # ver[t]) =>
                /\ store'[ver[t].id] # NoPayment
                /\ store'[ver[t].id].status = "Expired"
                /\ ver'[t].pc = "done"
                /\ ver'[t].result.kind = "ok"
                /\ ~ver'[t].result.value.verified
                /\ ~ver'[t].result.value.success
                /\ ver'[t].result.value.status = "Expired"
                /\ ~ver'[t].looked]_vars

\* C3 witness: a verify of a Pending payment after its expiry has returned
\* Expired, and the store holds the payment as Expired.
C3_Witness ==
    \E t \in Verifiers :
        /\ Returned(t)
        /\ ver[t].result.value.status = "Expired"
        /\ ~ver[t].looked
        /\ Present(ver[t].id)
        /\ store[ver[t].id].status = "Expired"
        /\ store[ver[t].id].signature = NoSignature
        /\ now > store[ver[t].id].expires_at

\* C4: once a verify of a payment has returned Expired, no verify of that payment
\* returns verified or persists Completed.
C4_ExpiredTerminal ==
    [][\A a \in Verifiers, b \in Verifiers :
          (/\ Returned(a)
           /\ ver[a].result.value.status = "Expired"
           /\ ver'[b].id = ver[a].id
           /\ ver'[b] # ver[b]) =>
              /\ ~(ver'[b].pc = "done" /\ ver'[b].result.kind = "ok"
                     /\ ver'[b].result.value.verified)
              /\ ~(Saves(b) /\ store'[ver[b].id].status = "Completed")]_vars

\* C5: a stored payment is Completed, and a network verification returns
\* verified, only with a signature whose transaction succeeded on-chain and whose
\* main and fee legs both match the payment.
C5_CompletedOnlyOnFullMatch ==
    /\ \A id \in PaymentIds :
          (Present(id) /\ store[id].status = "Completed") =>
              FullMatch(store[id].signature, store[id])
    /\ \A t \in Verifiers :
          /\ ver[t].pc = "save_completed" => FullMatch(ver[t].sig, ver[t].payment)
          /\ (Returned(t) /\ ver[t].looked /\ Present(ver[t].id)) =>
                (ver[t].result.value.verified =>
                    FullMatch(ver[t].result.value.signature, store[ver[t].id]))

\* C5 witness: one verify was refused on a transaction that lacks a leg, and the
\* payment was then completed by a transaction that matches in full.
C5_Witness ==
    /\ \E id \in PaymentIds : Present(id) /\ store[id].status = "Completed"
    /\ \E t \in Verifiers :
          /\ Returned(t) /\ ver[t].looked /\ ~ver[t].result.value.verified
          /\ Succeeded("sig1") /\ ~FullMatch("sig1", store[ver[t].id])

\* C6: when the network verification of an unexpired Pending payment finds a
\* full match, the local payment becomes Completed with the submitted signature
\* and verified_at = now; the save stores exactly that payment and the request
\* returns verified with that signature.
C6_FullMatchCompletes ==
    [][\A t \in Verifiers :
          /\ (/\ LeavesNet(t)
              /\ FullMatch(ver[t].sig, ver[t].payment)
              /\ ver'[t].result # Err("RPC request failed")) =>
                /\ ver'[t].pc = "save_completed"
                /\ ver'[t].payment = [ver[t].payment EXCEPT !.status = "Completed",
                                                            !.signature = ver[t].sig,
                                                            !.verified_at = now]
          /\ (ver[t].pc = "save_completed" /\ ver'[t] # ver[t]) =>
                /\ store'[ver[t].id] = ver[t].payment
                /\ store'[ver[t].id].status = "Completed"
                /\ store'[ver[t].id].signature = ver[t].sig
                /\ store'[ver[t].id].verified_at # NoTime
                /\ ver'[t].pc = "done"
                /\ ver'[t].result.kind = "ok"
                /\ ver'[t].result.value.verified
                /\ ver'[t].result.value.success
                /\ ver'[t].result.value.status = "Completed"
                /\ ver'[t].result.value.signature = ver[t].sig]_vars

\* C6 witness: a verify has returned verified after a network lookup and the
\* store holds the payment as Completed under the signature it returned.
C6_Witness ==
    \E t \in Verifiers :
        /\ Returned(t) /\ ver[t].looked /\ ver[t].result.value.verified
        /\ Present(ver[t].id)
        /\ store[ver[t].id].status = "Completed"
        /\ store[ver[t].id].signature = ver[t].result.value.signature
        /\ store[ver[t].id].verified_at \in 0..now
        /\ FullMatch(store[ver[t].id].signature, store[ver[t].id])

\* C7: when the transaction of the submitted signature is not found, or failed
\* on-chain, or misses a leg, verify returns a result (not an error) with
\* verified = false and status Pending, and leaves the store as it was.
C7_RefusalKeepsPending ==
    [][\A t \in Verifiers :
          (/\ LeavesNet(t)
           /\ ver[t].sig \in Signatures
           /\ is_token_supported(ver[t].payment.fee_token)
           /\ ~FullMatch(ver[t].sig, ver[t].payment)
           /\ ver'[t].result # Err("RPC request failed")) =>
              /\ ver'[t].pc = "done"
              /\ ver'[t].result.kind = "ok"
              /\ ~ver'[t].result.value.verified
              /\ ver'[t].result.value.status = "Pending"
              /\ store' = store]_vars

\* C7 without its first case: what holds when the transaction was found.
C7_RefusalOfFoundTransaction ==
    [][\A t \in Verifiers :
          (/\ LeavesNet(t)
           /\ ver[t].sig \in Signatures
           /\ chain[ver[t].sig].found
           /\ is_token_supported(ver[t].payment.fee_token)
           /\ ~FullMatch(ver[t].sig, ver[t].payment)
           /\ ver'[t].result # Err("RPC request failed")) =>
              /\ ver'[t].pc = "done"
              /\ ver'[t].result.kind = "ok"
              /\ ~ver'[t].result.value.verified
              /\ ver'[t].result.value.status = "Pending"
              /\ store' = store]_vars

\* C8: the stored verified_at and signature of a payment, once set, never change.
C8_VerifiedAtSetOnce ==
    [][\A id \in PaymentIds :
          (Present(id) /\ store[id].verified_at # NoTime /\ store'[id] # NoPayment) =>
              /\ store'[id].verified_at = store[id].verified_at
              /\ store'[id].signature = store[id].signature]_vars

-----------------------------------------------------------------------------
(* Claims about building the transaction *)

\* The build-transaction request has returned a serialized transaction.
Composed == comp.pc = "done" /\ comp.result.kind = "ok"

\* The transaction inside a serialized transaction.
Decoded(serialized) == serialized[2][2]

\* The wallet an instruction pays.
PaidWallet(instruction) ==
    IF instruction.asset = "SOL" THEN instruction.to ELSE instruction.to[1]

\* The registry entry of a token, by its symbol.
Registered(token) ==
    {supported_tokens[i] : i \in {j \in 1..Len(supported_tokens) : supported_tokens[j].symbol = token}}

\* C9: for a payment whose token and fee token are in the registry, a transaction
\* that was built holds exactly two transfers, the main one and then the fee one,
\* every other instruction prepares an account, and the transaction carries the
\* one blockhash of the single gateway call that succeeded.
C9_TwoTransfersOneBlockhash ==
    (/\ Composed
     /\ Registered(comp.payment.token) # {}
     /\ Registered(comp.payment.fee_token) # {}) =>
        LET tx == Decoded(comp.result.value)
            ins == tx.instructions
            transfers == {i \in 1..Len(ins) : ins[i].kind = "transfer"}
        IN  /\ Cardinality(transfers) = 2
            /\ \E i \in transfers, j \in transfers :
                  /\ i < j
                  /\ PaidWallet(ins[i]) = comp.payment.recipient
                  /\ PaidWallet(ins[j]) = comp.payment.fee_recipient
            /\ \A i \in (1..Len(ins)) \ transfers : ins[i].kind = "create_account"
            /\ comp.successes = 1
            /\ \E e \in 1..Len(rpc_endpoints) :
                  comp.endpoint = e /\ tx.recent_blockhash = Blockhash(e)

\* C9 witness: a transaction was built for a payment in a ledger-asset, after
\* failed attempts on the first endpoint.
C9_Witness ==
    /\ Composed
    /\ Registered(comp.payment.token) # {}
    /\ Registered(comp.payment.fee_token) # {}
    /\ comp.payment.token # "SOL"
    /\ comp.attempts > 2
    /\ Len(Decoded(comp.result.value).instructions) = 4

\* One leg by the rule of the spec: a native transfer, or an ensure-account step
\* and a transfer in the token's own mint and decimals.
ExpectedLeg(payer, wallet, token, amount) ==
    LET entry == CHOOSE r \in Registered(token) : TRUE
        minor == amount.u * Pow10(entry.decimals) + (amount.n \div Pow10(9 - entry.decimals))
    IN  IF entry.mint = NoMint
        THEN <<SolTransfer(payer, wallet, minor)>>
        ELSE <<CreateAta(payer, wallet, entry.mint), SplTransfer(entry.mint, payer, wallet, minor)>>

\* C10: the fee leg is built from fee_token, fee_amount and fee_recipient by the
\* rule of the main leg, after the main leg.
C10_FeeLegFollowsFeeToken ==
    (/\ Composed
     /\ Registered(comp.payment.token) # {}
     /\ Registered(comp.payment.fee_token) # {}) =>
        Decoded(comp.result.value).instructions =
            ExpectedLeg(comp.payer, comp.payment.recipient, comp.payment.token,
                        comp.payment.amount)
            \o ExpectedLeg(comp.payer, comp.payment.fee_recipient, comp.payment.fee_token,
                           comp.payment.fee_amount)

\* C10 when the configured fee token is USDC, the one case the code builds.
C10_FeeLegWhenFeeTokenIsUSDC ==
    cfg.fee_token = "USDC" => C10_FeeLegFollowsFeeToken

\* The two transfers of a built transaction, by position.
TransferPositions(ins) == {i \in 1..Len(ins) : ins[i].kind = "transfer"}

FirstTransfer(ins) ==
    CHOOSE i \in TransferPositions(ins) : \A j \in TransferPositions(ins) : i <= j

\* The instructions up to and including the first transfer, and the ones after it.
MainLegOf(ins) == SubSeq(ins, 1, FirstTransfer(ins))
FeeLegOf(ins) == SubSeq(ins, FirstTransfer(ins) + 1, Len(ins))

\* A leg in a native token is the transfer alone; a leg in a ledger-asset is the
\* ensure-account step for the wallet and, right after it, the transfer.
LegInOrder(leg, token, wallet) ==
    \A entry \in Registered(token) :
        IF entry.mint = NoMint
        THEN /\ Len(leg) = 1
             /\ leg[1].kind = "transfer"
             /\ PaidWallet(leg[1]) = wallet
        ELSE /\ Len(leg) = 2
             /\ leg[1].kind = "create_account"
             /\ leg[1].wallet = wallet
             /\ leg[2].kind = "transfer"
             /\ PaidWallet(leg[2]) = wallet

\* C11: in a built transaction the main leg's instructions come first and the fee
\* leg's after them; a leg whose token is a ledger-asset is an ensure-account
\* instruction immediately followed by its transfer, and a leg whose token is
\* native is its transfer alone.
C11_LegOrdering ==
    (/\ Composed
     /\ Registered(comp.payment.token) # {}
     /\ Registered(comp.payment.fee_token) # {}) =>
        LET ins == Decoded(comp.result.value).instructions
        IN  /\ TransferPositions(ins) # {}
            /\ LegInOrder(MainLegOf(ins), comp.payment.token, comp.payment.recipient)
            /\ LegInOrder(FeeLegOf(ins), comp.payment.fee_token, comp.payment.fee_recipient)

\* C11 when the configured fee token is USDC, the one case the code builds.
C11_LegOrderingWhenFeeTokenIsUSDC ==
    cfg.fee_token = "USDC" => C11_LegOrdering

\* m is amount * 10^decimals rounded toward zero, for an amount [u, n] >= 0.
TruncatedTo(m, amount, decimals) ==
    LET below == m - amount.u * Pow10(decimals)      \* the part that comes from n
        grain == Pow10(9 - decimals)                 \* nano-units per minor unit
    IN  /\ below >= 0
        /\ below * grain <= amount.n
        /\ amount.n < (below + 1) * grain

\* The transfer of a leg moves the leg's amount in the minor units of its token.
LegScaled(leg, token, amount) ==
    \A entry \in Registered(token) :
        /\ Len(leg) > 0
        /\ leg[Len(leg)].kind = "transfer"
        /\ TruncatedTo(leg[Len(leg)].amount, amount, entry.decimals)

\* C12: the integer amount each leg transfers is amount * 10^decimals rounded
\* toward zero, with the decimals the registry gives for the leg's token; 1.5 at
\* 9 decimals is 1,500,000,000 and 2.5 at 6 decimals is 2,500,000.
C12_MinorUnitScaling ==
    /\ to_minor(Amt(1, 500000000), 9) = 1500000000
    /\ to_minor(Amt(2, 500000000), 6) = 2500000
    /\ (/\ Composed
        /\ Registered(comp.payment.token) # {}
        /\ Registered(comp.payment.fee_token) # {}) =>
           LET ins == Decoded(comp.result.value).instructions
           IN  /\ TransferPositions(ins) # {}
               /\ LegScaled(MainLegOf(ins), comp.payment.token, comp.payment.amount)
               /\ LegScaled(FeeLegOf(ins), comp.payment.fee_token, comp.payment.fee_amount)

\* C12 when the configured fee token is USDC, the one case the code builds.
C12_MinorUnitScalingWhenFeeTokenIsUSDC ==
    cfg.fee_token = "USDC" => C12_MinorUnitScaling

\* The error of a request whose every endpoint and retry failed.
NetworkUnavailable == Err("Failed to get blockhash: All RPC endpoints failed after retries")

\* The request is inside get_recent_blockhash_with_retries.
Fetching(c) == c.pc \in {"attempt", "sleep"}

\* An attempt on the last endpoint has failed.
FailedOnLast(c) == c.endpoint = Len(rpc_endpoints) /\ (c.retry > 0 \/ c.pc = "sleep")

\* C13: when the endpoints before the last one fail every attempt and the last
\* one answers, the request gets the last one's blockhash and no error: a
\* request ends without a blockhash only after an attempt on the last endpoint
\* has failed.
C13_EndpointFallback ==
    [][(Fetching(comp) /\ comp'.pc = "done" /\ comp'.result.kind # "ok")
          => FailedOnLast(comp)]_vars

\* C13 for a request that reaches the last endpoint before the deadline.
C13_FallbackBeforeDeadline ==
    [][(/\ comp.pc = "attempt"
        /\ comp.endpoint = Len(rpc_endpoints)
        /\ comp'.successes = 1)
          => /\ comp'.pc = "done"
             /\ comp'.result.kind = "ok"
             /\ Decoded(comp'.result.value).recent_blockhash = Blockhash(Len(rpc_endpoints))]_vars

\* C14: every call starts at the first endpoint; the endpoints are tried in
\* order, twice each, the next one only after both tries on the current one
\* failed; nothing is tried after a success; and the call ends in
\* NetworkUnavailable exactly when all six tries were made and failed.
C14_RetryPolicy ==
    /\ [](Fetching(comp) =>
            /\ comp.endpoint \in 1..Len(rpc_endpoints)
            /\ comp.retry \in {0, 1}
            /\ comp.successes = 0
            /\ comp.attempts = 2 * (comp.endpoint - 1) + comp.retry
                                 + (IF comp.pc = "sleep" THEN 1 ELSE 0))
    /\ [](comp.successes = 1 => (comp.pc = "done" /\ comp.result.kind = "ok"))
    /\ [](comp.successes \in {0, 1})
    /\ [](comp.pc = "done" =>
            (comp.result = NetworkUnavailable
                <=> (comp.attempts = 2 * Len(rpc_endpoints) /\ comp.successes = 0)))
    /\ [][(~Fetching(comp) /\ Fetching(comp'))
            => (comp'.pc = "attempt" /\ comp'.endpoint = 1 /\ comp'.retry = 0
                /\ comp'.attempts = 0)]_vars

\* C14 witness: all six tries failed and the call ended in NetworkUnavailable.
C14_Witness ==
    /\ comp.pc = "done"
    /\ comp.result = NetworkUnavailable
    /\ comp.attempts = 6
    /\ comp.endpoint = 3

\* C15: no step of a build-transaction request changes the store.
C15_ComposeLeavesStore ==
    [][comp' # comp => store' = store]_vars

\* C15 witness: a request for a stored payment was abandoned at its deadline,
\* and the payment is stored as the request read it.
C15_Witness ==
    /\ comp.pc = "done"
    /\ comp.result.kind = "timeout"
    /\ Present(comp.id)
    /\ store[comp.id] = comp.payment

\* C16: a request that is still fetching a blockhash when the deadline expires
\* ends in a timeout, which is not NetworkUnavailable; every other end of the
\* request comes before the deadline.
C16_DeadlineOutcome ==
    /\ []((comp.pc = "done" /\ comp.result.kind \in {"ok", "err"}) =>
             comp.elapsed < DeadlineSecs)
    /\ []((comp.pc = "done" /\ comp.result.kind = "timeout") =>
             /\ comp.result # NetworkUnavailable
             /\ NetworkUnavailable.kind # "timeout"
             /\ comp.successes = 0
             /\ comp.attempts < 2 * Len(rpc_endpoints))
    /\ [][(Fetching(comp) /\ comp'.pc = "done" /\ comp'.attempts = comp.attempts)
             => comp'.result.kind = "timeout"]_vars

\* C16 witness: the deadline expired after a try that timed out.
C16_Witness ==
    /\ comp.pc = "done"
    /\ comp.result.kind = "timeout"
    /\ comp.attempts > 0
    /\ comp.elapsed >= PerAttemptSecs

-----------------------------------------------------------------------------
(* Claims about the store and about create *)

\* Client c's call of method op runs its body and returns in this step.
Runs(c, op) == call[c].pc = "held" /\ call[c].op = op /\ call'[c].pc = "done"

\* The ids whose entry is past its expiry.
ExpiredIds == {k \in PaymentIds : Present(k) /\ now > store[k].expires_at}

C18_StoreSemantics ==
    /\ [][\A c \in Clients :
            /\ Runs(c, "save") =>
                 /\ get_payment(store', call[c].id) = call[c].payment
                 /\ \A k \in PaymentIds \ {call[c].id} : store'[k] = store[k]
            /\ Runs(c, "delete") =>
                 /\ call'[c].ret = Ok(Present(call[c].id))
                 /\ get_payment(store', call[c].id) = NoPayment
                 /\ \A k \in PaymentIds \ {call[c].id} : store'[k] = store[k]
            /\ Runs(c, "get") =>
                 /\ call'[c].ret = Ok(store[call[c].id])
                 /\ store' = store
            /\ Runs(c, "list") =>
                 /\ DOMAIN call'[c].ret.value = {k \in PaymentIds : Present(k)}
                 /\ \A k \in DOMAIN call'[c].ret.value : call'[c].ret.value[k] = store[k]
                 /\ store' = store]_vars
    /\ [][store' # store =>
            \E c \in Clients : Runs(c, "save") \/ Runs(c, "delete") \/ Runs(c, "cleanup")]_vars
    /\ [](\A c \in Clients, d \in Clients :
            (/\ c # d
             /\ call[c].pc = "held"
             /\ call[c].op \in {"save", "delete", "cleanup"}) => call[d].pc # "held")

\* C18 witness: of two saves of one id in flight together, one has written and
\* the other, holding the lock, is about to replace what it wrote.
C18_Witness ==
    \E c \in Clients, d \in Clients :
        /\ call[c].op = "save" /\ call[c].pc = "done"
        /\ call[d].op = "save" /\ call[d].pc = "held"
        /\ call[d].id = call[c].id
        /\ Present(call[d].id)
        /\ store[call[d].id] # call[d].payment
        /\ store[call[d].id].status # call[d].payment.status

\* A create-request the spec rejects.
Invalid(request) ==
    \/ request.recipient \notin Accounts
    \/ request.amount.u < 0
    \/ request.amount = Amt(0, 0)
    \/ request.amount.u > 1000000
    \/ (request.amount.u = 1000000 /\ request.amount.n > 0)
    \/ Registered(request.token) = {}

\* C19: a create with a malformed recipient, an amount <= 0, an amount above
\* 1,000,000 or a token outside the registry returns an error and leaves the
\* store as it was.
C19_InvalidCreateRejected ==
    [][\A request \in Requests : (Invalid(request) /\ CreatePayment(request)) =>
          /\ created'.kind = "err"
          /\ store' = store
          /\ nextId' = nextId]_vars

\* C19 witness: the last create was refused for an amount above the ceiling, and
\* the store holds nothing.
C19_Witness ==
    /\ created.kind = "err"
    /\ created.details = "Amount too large"
    /\ nextId = 0
    /\ \A k \in PaymentIds : ~Present(k)

\* C20: create stores a Pending payment without signature or verified_at that
\* expires 30 minutes after its creation; every stored payment expires after
\* its creation and has 0 < amount <= 1,000,000; a save of verify leaves
\* created_at, expires_at and amount of the stored payment as they were.
C20_PaymentShape ==
    /\ [][nextId' # nextId =>
            /\ nextId' = nextId + 1
            /\ ~Present(nextId')
            /\ created' = Ok(store'[nextId'])
            /\ store'[nextId'].status = "Pending"
            /\ store'[nextId'].signature = NoSignature
            /\ store'[nextId'].verified_at = NoTime
            /\ store'[nextId'].created_at = now
            /\ store'[nextId'].expires_at = store'[nextId'].created_at + 30
            /\ \A k \in PaymentIds \ {nextId'} : store'[k] = store[k]]_vars
    /\ [][\A k \in PaymentIds : store'[k] # NoPayment =>
            /\ store'[k].expires_at > store'[k].created_at
            /\ AmtLT(Amt(0, 0), store'[k].amount)
            /\ ~AmtLT(Amt(1000000, 0), store'[k].amount)]_vars
    /\ [][\A t \in Verifiers : (Saves(t) /\ Present(ver[t].id)) =>
            /\ store'[ver[t].id].created_at = store[ver[t].id].created_at
            /\ store'[ver[t].id].expires_at = store[ver[t].id].expires_at
            /\ store'[ver[t].id].amount = store[ver[t].id].amount]_vars

\* C20 witness: a payment created after the start of the run has been verified
\* and is stored as Completed with the times create gave it.
C20_Witness ==
    \E k \in PaymentIds :
        /\ Present(k)
        /\ store[k].status = "Completed"
        /\ store[k].created_at = TickStep
        /\ store[k].expires_at = TickStep + 30
        /\ store[k].verified_at >= store[k].created_at

-----------------------------------------------------------------------------
(* Claims about the registry, the statuses and removed payments *)

\* C21: the token and the fee token of every stored payment are in the registry.
C21_TokensResolve ==
    \A k \in PaymentIds : Present(k) =>
        /\ Registered(store[k].token) # {}
        /\ Registered(store[k].fee_token) # {}

\* C21 for the token alone, which create checks.
C21_TokenResolves ==
    \A k \in PaymentIds : Present(k) => Registered(store[k].token) # {}

\* C24: a build-transaction request asks the network for a blockhash only when
\* payer, recipient and fee recipient parse and token and fee token are in the
\* registry; a bad address ends the request in an address error, a token
\* outside the registry in unsupported-token, with no attempt made.
C24_ComposeFailsEarly ==
    /\ (Fetching(comp) \/ comp.attempts > 0) =>
          /\ comp.payer \in Accounts
          /\ comp.payment.recipient \in Accounts
          /\ comp.payment.fee_recipient \in Accounts
          /\ Registered(comp.payment.token) # {}
          /\ Registered(comp.payment.fee_token) # {}
    /\ (comp.pc = "done" /\ comp.payment # NoPayment /\ comp.payer \notin Accounts) =>
          (comp.result = Err("Invalid payer address") /\ comp.attempts = 0)

\* C24 without the fee token, which the code does not look at.
C24_ComposeFailsEarlyExceptFeeToken ==
    /\ (Fetching(comp) \/ comp.attempts > 0) =>
          /\ comp.payer \in Accounts
          /\ comp.payment.recipient \in Accounts
          /\ comp.payment.fee_recipient \in Accounts
          /\ Registered(comp.payment.token) # {}
    /\ (comp.pc = "done" /\ comp.payment # NoPayment /\ comp.payer \notin Accounts) =>
          (comp.result = Err("Invalid payer address") /\ comp.attempts = 0)

\* C25: no stored payment, no payment a verify is about to save and no result
\* of a verify has status Failed.
C25_FailedNeverAssigned ==
    /\ \A k \in PaymentIds : Present(k) => store[k].status \in {"Pending", "Completed", "Expired"}
    /\ \A t \in Verifiers :
          /\ ver[t].payment # NoPayment =>
                ver[t].payment.status \in {"Pending", "Completed", "Expired"}
          /\ Returned(t) => ver[t].result.value.status \in {"Pending", "Completed", "Expired"}

\* C25 witness: a verify has returned for a transaction that failed on-chain.
C25_Witness ==
    \E t \in Verifiers, sig \in Signatures :
        /\ Returned(t)
        /\ ver[t].looked
        /\ ver[t].result.value.status = "Pending"
        /\ chain[sig].found /\ chain[sig].meta /\ chain[sig].err
        /\ chain["sig2"] = NoTx

\* C26: a stored payment carries a signature and a verified_at exactly when it
\* is Completed.
C26_SignatureIffCompleted ==
    \A k \in PaymentIds : Present(k) =>
        /\ (store[k].signature # NoSignature) <=> (store[k].status = "Completed")
        /\ (store[k].verified_at # NoTime) <=> (store[k].status = "Completed")

\* C29: an id that was given out and is no longer in the store stays out of it.
C29_RemovedStaysRemoved ==
    [][\A k \in PaymentIds : (k <= nextId /\ ~Present(k)) => store'[k] = NoPayment]_vars

\* C30: a transaction is returned only for a payment that is stored as Pending
\* and is not past its expiry when the transaction is returned.
C30_ComposeOnlyForLivePayment ==
    [][(comp' # comp /\ comp'.pc = "done" /\ comp'.result.kind = "ok") =>
          /\ Present(comp.id)
          /\ store[comp.id].status = "Pending"
          /\ now <= store[comp.id].expires_at]_vars

-----------------------------------------------------------------------------
(* Claims about the verifier *)

\* The balance deltas the transaction shows for account in token.
LegDeltas(tx, account, token) ==
    IF token = "SOL"
    THEN {AmtSub(tx.post_balances[k], tx.pre_balances[k]) : k \in tx.account_keys \cap {account}}
    ELSE {AmtSub(post.ui_amount,
                 IF \E pre \in tx.pre_token_balances : pre.owner = post.owner /\ pre.mint = post.mint
                 THEN (CHOOSE pre \in tx.pre_token_balances :
                          pre.owner = post.owner /\ pre.mint = post.mint).ui_amount
                 ELSE Amt(0, 0))
            : post \in {b \in tx.post_token_balances :
                          /\ b.owner = account
                          /\ \E entry \in Registered(token) : entry.mint = b.mint}}

\* |a - b| as a number of nano-units, for |a - b| < 1.
NanoApart(a, b) ==
    LET d == AmtSub(a, b)
    IN  (IF d.u < 0 THEN -1 ELSE 1) * (d.u * 1000000000 + d.n)

\* Every leg of payment p shows in tx a delta at most `nanos` away from its amount.
LegsWithin(tx, p, nanos) ==
    /\ \E d \in LegDeltas(tx, p.recipient, p.token) : NanoApart(d, p.amount) <= nanos
    /\ \E d \in LegDeltas(tx, p.fee_recipient, p.fee_token) : NanoApart(d, p.fee_amount) <= nanos

\* Some leg of payment p shows in tx no delta less than `nanos` away from its amount.
SomeLegOffBy(tx, p, nanos) ==
    \/ \A d \in LegDeltas(tx, p.recipient, p.token) : NanoApart(d, p.amount) >= nanos
    \/ \A d \in LegDeltas(tx, p.fee_recipient, p.fee_token) : NanoApart(d, p.fee_amount) >= nanos

\* Task t's network verification answers in this step, for a transaction that
\* succeeded and a payment whose fee token is in the registry.
Judges(t) ==
    /\ LeavesNet(t)
    /\ ver'[t].result \notin {Err("RPC request failed")}
    /\ Succeeded(ver[t].sig)
    /\ Registered(ver[t].payment.fee_token) # {}

\* C22: a transaction whose deltas are each within 0.000001 of the expected
\* amounts, the bound included, is accepted; one with a delta 0.01 off is refused.
C22_ToleranceInclusive ==
    [][\A t \in Verifiers : Judges(t) =>
          /\ LegsWithin(chain[ver[t].sig], ver[t].payment, 1000) => ver'[t].pc = "save_completed"
          /\ SomeLegOffBy(chain[ver[t].sig], ver[t].payment, 10000000) =>
                (ver'[t].pc = "done" /\ ver'[t].result.kind = "ok"
                 /\ ~ver'[t].result.value.verified)]_vars

\* C22 with the bound excluded, as the code compares.
C22_ToleranceStrict ==
    [][\A t \in Verifiers : Judges(t) =>
          /\ LegsWithin(chain[ver[t].sig], ver[t].payment, 999) => ver'[t].pc = "save_completed"
          /\ SomeLegOffBy(chain[ver[t].sig], ver[t].payment, 1000) =>
                (ver'[t].pc = "done" /\ ver'[t].result.kind = "ok"
                 /\ ~ver'[t].result.value.verified)]_vars

C28_OneSignatureOnePayment ==
    \A j \in DOMAIN store, k \in DOMAIN store :
        (/\ j # k
         /\ store[j] # NoPayment /\ store[j].status = "Completed"
         /\ store[k] # NoPayment /\ store[k].status = "Completed")
        => store[j].signature # store[k].signature

\* Task t's network verification answers in this step, for a transaction that
\* is on the ledger (in SpecRoundTrip, one that compose built for the payment and
\* that executed as composed), submitted before the payment expired.
JudgesComposed(t) ==
    /\ LeavesNet(t)
    /\ ver'[t].result \notin {Err("RPC request failed")}
    /\ Succeeded(ver[t].sig)

\* C27: the transaction compose built for a payment, executed as composed and
\* submitted before expiry, is verified, and the save that follows completes
\* the payment.
C27_RoundTrip ==
    [][\A t \in Verifiers :
          /\ JudgesComposed(t) => ver'[t].pc = "save_completed"
          /\ (ver[t].pc = "save_completed" /\ ver'[t].pc = "done") =>
                /\ ver'[t].result.kind = "ok" /\ ver'[t].result.value.verified
                /\ store'[ver[t].id].status = "Completed"]_vars

\* C27 for a fee token of USDC and a main leg that differs from the fee leg in
\* wallet or token.
C27_RoundTripWhenLegsAreApart ==
    [][\A t \in Verifiers :
          /\ (/\ JudgesComposed(t)
              /\ ver[t].payment.fee_token = "USDC"
              /\ ~(/\ ver[t].payment.recipient = ver[t].payment.fee_recipient
                   /\ ver[t].payment.token = ver[t].payment.fee_token))
             => ver'[t].pc = "save_completed"
          /\ (ver[t].pc = "save_completed" /\ ver'[t].pc = "done") =>
                /\ ver'[t].result.kind = "ok" /\ ver'[t].result.value.verified
                /\ store'[ver[t].id].status = "Completed"]_vars

\* A round trip has succeeded.
C27_Reached ==
    /\ Succeeded("sig1")
    /\ ver["v1"].pc = "done" /\ ver["v1"].result.kind = "ok" /\ ver["v1"].result.value.verified
    /\ store[1] # NoPayment /\ store[1].amount = Amt(1, 500000500) /\ store[1].token = "USDC"

-----------------------------------------------------------------------------
(* Claims about termination and the lock *)

C32_LockFreeAcrossNetwork ==
    /\ [](\A t \in Verifiers : ver[t].pc = "net" => ~holds(lock, t) /\ ~waits(lock, t))
    /\ [](Fetching(comp) => ~holds(lock, Builder) /\ ~waits(lock, Builder))
    /\ \A c \in LockClients : (call[c].pc = "wait") ~> (call[c].pc = "done")
    /\ \A t \in LockVerifiers :
          /\ (ver[t].pc = "wait_get") ~> (ver[t].pc \notin {"wait_get", "held_get"})
          /\ (ver[t].pc \in {"save_expired", "save_completed"}) ~> (ver[t].pc = "done")
    /\ (comp.pc = "wait_get") ~> (comp.pc \notin {"wait_get", "held_get"})

\* C32 witness: while a verify waits for the network and a build-transaction
\* request fetches its blockhash, a delete has taken the write lock, removed
\* the payment both had read, and returned.
C32_Witness ==
    /\ ver["v1"].pc = "net"
    /\ Fetching(comp)
    /\ store[ver["v1"].id] = NoPayment
    /\ call["c1"].pc = "done"
    /\ call["c1"].op = "delete"
    /\ call["c1"].ret = Ok(TRUE)

====
